---- MODULE Spec2Model ----
(***************************************************************************)
(* A model of mlib's vector (src/vector.c, src/vector.h): a growable array *)
(* of long with a small-buffer optimisation.  The state is the C heap as   *)
(* the library sees it: the vector structs (count, capacity, stack_buf,    *)
(* heap_buf, data), the blocks obtained from malloc/realloc, and errno.    *)
(* Every API function is an operator from a machine state to a machine     *)
(* state, written line by line from the C source, and one action applies   *)
(* it.  The machine state an operator returns also carries the call's      *)
(* return value (ret) and what it wrote to the caller's buffer (out).      *)
(*                                                                         *)
(* Pointers are pairs <<kind, id>>: <<"null", 0>>, <<"stack", v>> (the     *)
(* stack_buf member of struct v) and <<"heap", b>> (block b).  Memory that *)
(* was never written holds Garbage, an indeterminate value.  An access     *)
(* outside a buffer, through a released buffer, or through a null pointer  *)
(* is undefined behaviour: it is recorded in fault, and the program is not *)
(* followed any further.                                                   *)
(***************************************************************************)
EXTENDS Integers, Sequences, FiniteSets, TLC

VARIABLES vecs, heap, errno, fault, ops

vars == <<vecs, heap, errno, fault, ops>>

-----------------------------------------------------------------------------
(* Program constants *)

MC_VECTOR_BUFSIZE == 10

\* <limits.h>: LONG_MIN of a build whose long is 32 bits wide.
LONG_MIN == (-2147483647) - 1

\* <limits.h>: LONG_MAX of the same build.
LONG_MAX == 2147483647

\* size_t arithmetic wraps; every size of the model is far below this modulus,
\* so a wrapped difference is larger than every buffer, as it is for 2^64.
SizeMod == 2^30

SizeSub(a, b) == (a - b) % SizeMod

-----------------------------------------------------------------------------
(* Bounds of the model *)

\* the number of API calls of a run
MaxOps == 4

\* the number of blocks malloc/realloc hand out in a run
MaxBlocks == 3

\* the vector structs a run can create
VecIds == {1, 2}

Blocks == 1..MaxBlocks

\* the absent vector (a NULL argument)
NullVec == 0

Handles == VecIds \cup {NullVec}

\* element values the callers store
Values == {LONG_MIN, 1}

\* the caller's source array for from_array and inserts
SrcArray == <<10, 20, 30, 40, 50, 60>>

\* what an allocation can do: fail, succeed in place (realloc), succeed elsewhere
AllocOutcomes == {"fail", "inplace", "move"}

-----------------------------------------------------------------------------
(* Memory *)

\* the indeterminate value of memory that was never written; no caller stores it
Garbage == -1

NullPtr == <<"null", 0>>

StackPtr(v) == <<"stack", v>>

HeapPtr(b) == <<"heap", b>>

\* F applied to the value of x, which is computed once
Bind(x, F(_)) == CHOOSE r \in {F(y) : y \in {x}} : TRUE

Fill(n, x) == [i \in 1..n |-> x]

\* the first n elements of s, padded with Garbage
Take(s, n) == [i \in 1..n |-> IF i <= Len(s) THEN s[i] ELSE Garbage]

\* a struct that was never allocated (unborn), released (freed) or absent (null)
NoVec(status) == [st |-> status, count |-> 0, capacity |-> 0, stack_buf |-> <<>>, heap_buf |-> NullPtr, data |-> NullPtr]

NoBlock(status) == [st |-> status, mem |-> <<>>]

\* the machine state the operators work on
Machine == [vecs |-> vecs, heap |-> heap, errno |-> errno, fault |-> fault, ret |-> 0, out |-> <<>>]

\* undefined behaviour of the given kind happened; the first one is kept
Fault(m, kind) == [m EXCEPT !.fault = IF @ = "none" THEN kind ELSE @]

\* the buffer p points to is allocated and not released
BufValid(m, p) == \/ p[1] = "stack" /\ m.vecs[p[2]].st = "live"
                  \/ p[1] = "heap" /\ m.heap[p[2]].st = "live"

BufMem(m, p) == IF ~BufValid(m, p) THEN <<>> ELSE IF p[1] = "stack" THEN m.vecs[p[2]].stack_buf ELSE m.heap[p[2]].mem

BufLen(m, p) == Len(BufMem(m, p))

\* an access to n elements at offset lo of p that leaves the buffer
BadAccess(m, p, lo, n) == n > 0 /\ (~BufValid(m, p) \/ lo + n > BufLen(m, p))

\* p[lo .. lo+n) as read; what lies outside the buffer reads as Garbage
ReadSeq(m, p, lo, n) == Bind(BufMem(m, p), LAMBDA mem : [i \in 1..n |-> IF lo + i <= Len(mem) THEN mem[lo + i] ELSE Garbage])

\* mem with s written at offset lo; what falls outside is dropped
Patch(mem, lo, s) == [i \in 1..Len(mem) |-> IF i > lo /\ i <= lo + Len(s) THEN s[i - lo] ELSE mem[i]]

StoreSeq(m, p, lo, s) == IF ~BufValid(m, p) THEN m ELSE IF p[1] = "stack" THEN [m EXCEPT !.vecs[p[2]].stack_buf = Patch(@, lo, s)] ELSE [m EXCEPT !.heap[p[2]].mem = Patch(@, lo, s)]

\* a write of s to p[lo ..): a memory fault when it leaves the buffer
WriteMem(m0, p, lo, s0) == Bind(m0, LAMBDA m : Bind(s0, LAMBDA s : IF BadAccess(m, p, lo, Len(s)) THEN Fault(StoreSeq(m, p, lo, s), "write") ELSE StoreSeq(m, p, lo, s)))

\* a read of p[lo .. lo+n): the fault it raises, if any
Touch(m, p, lo, n) == IF BadAccess(m, p, lo, n) THEN Fault(m, "read") ELSE m

\* memcpy/memmove(dst + dlo, src + slo, n elements); a wrapped size_t n leaves every buffer
MemMove(m0, dst, dlo, src, slo, n) == Bind(m0, LAMBDA m : IF n >= SizeMod \div 2 THEN Fault(m, "size") ELSE WriteMem(Touch(m, src, slo, n), dst, dlo, ReadSeq(m, src, slo, n)))

\* the lowest block never handed out, 0 when the run's blocks are used up
FreshBlock(m) == IF \E b \in Blocks : m.heap[b].st = "unalloc" THEN CHOOSE b \in Blocks : m.heap[b].st = "unalloc" /\ \A c \in Blocks : c < b => m.heap[c].st # "unalloc" ELSE 0

\* malloc(n elements): the machine and the pointer returned
Malloc(m0, n, outcome) == Bind(m0, LAMBDA m : Bind(FreshBlock(m), LAMBDA b : IF outcome = "fail" \/ b = 0 THEN [m |-> m, ptr |-> NullPtr] ELSE [m |-> [m EXCEPT !.heap[b] = [st |-> "live", mem |-> Fill(n, Garbage)]], ptr |-> HeapPtr(b)]))

\* free(p): releasing what is not a live block is undefined
Free(m0, p) == Bind(m0, LAMBDA m : IF p = NullPtr THEN m ELSE IF p[1] = "heap" /\ m.heap[p[2]].st = "live" THEN [m EXCEPT !.heap[p[2]] = NoBlock("freed")] ELSE Fault(m, "free"))

\* realloc(p, n elements) that moves the block: the old contents are copied, the old block released
ReallocMove(m, p, n) == Bind(Malloc(m, n, "move"), LAMBDA r : IF r.ptr = NullPtr THEN r ELSE [m |-> Free([r.m EXCEPT !.heap[r.ptr[2]].mem = Take(m.heap[p[2]].mem, n)], p), ptr |-> r.ptr])

\* realloc(p, n elements): the machine and the pointer returned
Realloc(m0, p, n, outcome) == Bind(m0, LAMBDA m : IF p = NullPtr THEN Malloc(m, n, outcome) ELSE IF ~(p[1] = "heap" /\ m.heap[p[2]].st = "live") THEN [m |-> Fault(m, "free"), ptr |-> NullPtr] ELSE IF outcome = "fail" THEN [m |-> m, ptr |-> NullPtr] ELSE IF outcome = "inplace" THEN [m |-> [m EXCEPT !.heap[p[2]].mem = Take(@, n)], ptr |-> p] ELSE ReallocMove(m, p, n))

-----------------------------------------------------------------------------
(* Constructors and destructor.  h is the struct malloc returns when it     *)
(* succeeds; sa is the outcome of the struct's malloc, ba of the buffer's.  *)

Return(m, value) == [m EXCEPT !.ret = value]

Error(m, code, value) == [m EXCEPT !.errno = code, !.ret = value]

\* *res of a struct just allocated: its members hold indeterminate values until assigned
NewVec(capacity, heap_buf, data) == [st |-> "live", count |-> 0, capacity |-> capacity, stack_buf |-> Fill(MC_VECTOR_BUFSIZE, Garbage), heap_buf |-> heap_buf, data |-> data]

mc_vector_make(m0, h, capacity, sa, ba) == Bind(m0, LAMBDA m :
    IF capacity = 0 THEN Error(m, "EINVAL", NullVec)
    ELSE IF sa = "fail" THEN Error(m, "ENOBUFS", NullVec)
    ELSE IF capacity > MC_VECTOR_BUFSIZE
    THEN Bind(Malloc(m, capacity, ba), LAMBDA r :
             IF r.ptr = NullPtr THEN Error(m, "ENOBUFS", NullVec)
             ELSE Return([r.m EXCEPT !.vecs[h] = NewVec(capacity, r.ptr, r.ptr)], h))
    ELSE Return([m EXCEPT !.vecs[h] = NewVec(MC_VECTOR_BUFSIZE, NullPtr, StackPtr(h))], h))

\* a NULL array argument
NullArray == <<>>

mc_vector_make_filled(m0, h, capacity, length, value, sa, ba) == Bind(m0, LAMBDA m :
    IF capacity = 0 \/ length = 0 \/ capacity < length THEN Error(m, "EINVAL", NullVec)
    ELSE Bind(mc_vector_make(m, h, capacity, sa, ba), LAMBDA r :
             IF r.ret = NullVec THEN r
             ELSE Return([WriteMem(r, r.vecs[h].data, 0, Fill(length, value)) EXCEPT !.vecs[h].count = length], h)))

\* a clone that shares the source's buffer instead of copying the elements
mc_vector_clone_shared(m0, vec, h, sa, ba) == Bind(m0, LAMBDA m :
    IF vec = NullVec THEN Error(m, "EFAULT", NullVec)
    ELSE Bind(mc_vector_make(m, h, m.vecs[vec].capacity, sa, ba), LAMBDA r :
             IF r.ret = NullVec THEN r
             ELSE Return([r EXCEPT !.vecs[h].data = r.vecs[vec].data, !.vecs[h].capacity = r.vecs[vec].capacity, !.vecs[h].count = r.vecs[vec].count], h)))

mc_vector_clone(m0, vec, h, sa, ba) == Bind(m0, LAMBDA m :
    IF vec = NullVec THEN Error(m, "EFAULT", NullVec)
    ELSE Bind(mc_vector_make(m, h, m.vecs[vec].capacity, sa, ba), LAMBDA r :
             IF r.ret = NullVec THEN r
             ELSE Return([MemMove(r, r.vecs[h].data, 0, r.vecs[vec].data, 0, r.vecs[vec].count) EXCEPT !.vecs[h].capacity = r.vecs[vec].capacity, !.vecs[h].count = r.vecs[vec].count], h)))

\* a from_array that keeps the capacity mc_vector_make chose
mc_vector_from_array_floor(m0, src, h, length, sa, ba) == Bind(m0, LAMBDA m :
    IF src = NullArray THEN Error(m, "EFAULT", NullVec)
    ELSE IF length = 0 THEN Error(m, "EINVAL", NullVec)
    ELSE Bind(mc_vector_make(m, h, length * 2, sa, ba), LAMBDA r :
             IF r.ret = NullVec THEN r
             ELSE Return([WriteMem(r, r.vecs[h].data, 0, SubSeq(src, 1, length)) EXCEPT !.vecs[h].count = length], h)))

mc_vector_from_array(m0, src, h, length, sa, ba) == Bind(m0, LAMBDA m :
    IF src = NullArray THEN Error(m, "EFAULT", NullVec)
    ELSE IF length = 0 THEN Error(m, "EINVAL", NullVec)
    ELSE Bind(mc_vector_make(m, h, length * 2, sa, ba), LAMBDA r :
             IF r.ret = NullVec THEN r
             ELSE Return([WriteMem(r, r.vecs[h].data, 0, SubSeq(src, 1, length)) EXCEPT !.vecs[h].capacity = length * 2, !.vecs[h].count = length], h)))

mc_vector_free(m0, vec) == Bind(m0, LAMBDA m :
    IF vec = NullVec THEN Return(m, 0)
    ELSE Bind(IF m.vecs[vec].heap_buf # NullPtr THEN Free(m, m.vecs[vec].heap_buf) ELSE m, LAMBDA f :
             Return([f EXCEPT !.vecs[vec] = NoVec("freed")], 0)))

-----------------------------------------------------------------------------
(* Accessors *)

\* *vec read through a pointer that may be NULL
Deref(m, vec) == IF vec = NullVec THEN NoVec("null") ELSE m.vecs[vec]

\* vec->member evaluated before vec is tested: undefined for NULL
NullDeref(m, vec) == IF vec = NullVec THEN Fault(m, "null") ELSE m

mc_vector_extract(m0, vec, bufferOk, index, length) == Bind(m0, LAMBDA m :
    IF vec = NullVec \/ ~bufferOk THEN Error(m, "EFAULT", 0)
    ELSE IF index >= m.vecs[vec].count \/ length = 0 \/ index + length > m.vecs[vec].count THEN Error(m, "EINVAL", 0)
    ELSE [Touch(m, m.vecs[vec].data, index, length) EXCEPT !.ret = length, !.out = ReadSeq(m, m.vecs[vec].data, index, length)])

mc_vector_to_array(m0, vec, bufferOk) == Bind(m0, LAMBDA m : mc_vector_extract(NullDeref(m, vec), vec, bufferOk, 0, Deref(m, vec).count))

mc_vector_get(m0, vec, index, outOk) == Bind(m0, LAMBDA m :
    IF vec = NullVec \/ ~outOk THEN Error(m, "EFAULT", 0)
    ELSE IF index >= m.vecs[vec].capacity THEN Error(m, "EINVAL", 0)
    ELSE [Touch(m, m.vecs[vec].data, index, 1) EXCEPT !.ret = 1, !.out = ReadSeq(m, m.vecs[vec].data, index, 1)])

mc_vector_get_unchecked(m0, vec, index) == Bind(m0, LAMBDA m :
    IF vec = NullVec \/ index >= Deref(m, vec).capacity THEN Return(m, LONG_MAX)
    ELSE Return(Touch(m, m.vecs[vec].data, index, 1), ReadSeq(m, m.vecs[vec].data, index, 1)[1]))

mc_vector_set(m0, vec, index, value) == Bind(m0, LAMBDA m :
    IF vec = NullVec THEN Error(m, "EFAULT", 0)
    ELSE IF index >= m.vecs[vec].count THEN Error(m, "EINVAL", 0)
    ELSE Return(WriteMem(m, m.vecs[vec].data, index, <<value>>), 1))

mc_vector_size(m, vec) == IF vec = NullVec THEN Error(m, "EFAULT", 0) ELSE Return(m, m.vecs[vec].count)

mc_vector_capacity(m, vec) == IF vec = NullVec THEN Error(m, "EFAULT", 0) ELSE Return(m, m.vecs[vec].capacity)

mc_vector_empty(m, vec) == IF vec = NullVec THEN Error(m, "EFAULT", 1) ELSE Return(m, IF m.vecs[vec].count = 0 THEN 1 ELSE 0)

mc_vector_is_stack(m, vec) == IF vec = NullVec THEN Error(m, "EFAULT", 0) ELSE Return(m, IF m.vecs[vec].data # m.vecs[vec].heap_buf THEN 1 ELSE 0)

-----------------------------------------------------------------------------
(* Growth.  outcome is what the realloc of the call does. *)

\* a growth that starts only once count + len exceeds capacity
vec_ensure_capacity_late(m0, vec, len, outcome) == Bind(m0, LAMBDA m :
    IF vec = NullVec THEN Return(m, 0)
    ELSE IF m.vecs[vec].count + len > m.vecs[vec].capacity
    THEN Bind((m.vecs[vec].capacity * 2) + len, LAMBDA cap :
         Bind(Realloc(m, m.vecs[vec].heap_buf, cap, outcome), LAMBDA r :
             IF r.ptr = NullPtr THEN Return(r.m, 0)
             ELSE Bind(IF m.vecs[vec].heap_buf = NullPtr THEN MemMove(r.m, r.ptr, 0, StackPtr(vec), 0, m.vecs[vec].capacity) ELSE r.m, LAMBDA c :
                  Return([c EXCEPT !.vecs[vec].heap_buf = r.ptr, !.vecs[vec].data = r.ptr, !.vecs[vec].capacity = cap], 1))))
    ELSE Return(m, 1))

vec_ensure_capacity(m0, vec, len, outcome) == Bind(m0, LAMBDA m :
    IF vec = NullVec THEN Return(m, 0)
    ELSE IF m.vecs[vec].count + len >= m.vecs[vec].capacity
    THEN Bind((m.vecs[vec].capacity * 2) + len, LAMBDA cap :
         Bind(Realloc(m, m.vecs[vec].heap_buf, cap, outcome), LAMBDA r :
             IF r.ptr = NullPtr THEN Return(r.m, 0)
             ELSE Bind(IF m.vecs[vec].heap_buf = NullPtr THEN MemMove(r.m, r.ptr, 0, StackPtr(vec), 0, m.vecs[vec].capacity) ELSE r.m, LAMBDA c :
                  Return([c EXCEPT !.vecs[vec].heap_buf = r.ptr, !.vecs[vec].data = r.ptr, !.vecs[vec].capacity = cap], 1))))
    ELSE Return(m, 1))

-----------------------------------------------------------------------------
(* Mutators *)

mc_vector_push(m0, vec, value, outcome) == Bind(m0, LAMBDA m :
    IF vec = NullVec THEN Error(m, "EFAULT", 0)
    ELSE Bind(vec_ensure_capacity(m, vec, 1, outcome), LAMBDA e :
             IF e.ret = 0 THEN Error(e, "ENOMEM", 0)
             ELSE Return([WriteMem(e, e.vecs[vec].data, e.vecs[vec].count, <<value>>) EXCEPT !.vecs[vec].count = @ + 1], 1)))

\* a pop that releases the allocated buffer when it removes the last element
mc_vector_pop_release(m0, vec) == Bind(m0, LAMBDA m :
    IF vec = NullVec THEN Error(m, "EFAULT", LONG_MIN)
    ELSE IF m.vecs[vec].count = 0 THEN Error(m, "ENOMEM", LONG_MIN)
    ELSE Bind(m.vecs[vec].count - 1, LAMBDA n :
         Bind([Touch(m, m.vecs[vec].data, n, 1) EXCEPT !.vecs[vec].count = n], LAMBDA p :
             Return(IF n = 0 /\ m.vecs[vec].data = m.vecs[vec].heap_buf
                    THEN [Free(p, m.vecs[vec].heap_buf) EXCEPT !.vecs[vec].heap_buf = NullPtr, !.vecs[vec].data = StackPtr(vec), !.vecs[vec].capacity = MC_VECTOR_BUFSIZE]
                    ELSE p, ReadSeq(m, m.vecs[vec].data, n, 1)[1]))))

mc_vector_pop(m0, vec) == Bind(m0, LAMBDA m :
    IF vec = NullVec THEN Error(m, "EFAULT", LONG_MIN)
    ELSE IF m.vecs[vec].count = 0 THEN Error(m, "ENOMEM", LONG_MIN)
    ELSE Bind(m.vecs[vec].count - 1, LAMBDA n :
             Return([Touch(m, m.vecs[vec].data, n, 1) EXCEPT !.vecs[vec].count = n], ReadSeq(m, m.vecs[vec].data, n, 1)[1])))

mc_vector_insert(m0, vec, index, value, outcome, outcome2) == Bind(m0, LAMBDA m :
    IF vec = NullVec THEN Error(m, "EFAULT", 0)
    ELSE IF index >= m.vecs[vec].count THEN Error(m, "EINVAL", 0)
    ELSE Bind(vec_ensure_capacity(m, vec, 1, outcome), LAMBDA e :
             IF e.ret = 0 THEN Error(e, "ENOMEM", 0)
             ELSE IF index = e.vecs[vec].count - 1 THEN mc_vector_push(e, vec, value, outcome2)
             ELSE Bind(MemMove(e, e.vecs[vec].data, index + 1, e.vecs[vec].data, index, e.vecs[vec].count - index), LAMBDA s :
                  Return([WriteMem(s, s.vecs[vec].data, index, <<value>>) EXCEPT !.vecs[vec].count = @ + 1], 1))))

mc_vector_inserts(m0, vec, index, src, length, outcome) == Bind(m0, LAMBDA m :
    IF vec = NullVec \/ src = NullArray THEN Error(m, "EFAULT", 0)
    ELSE IF index >= m.vecs[vec].capacity \/ length = 0 \/ index + length >= m.vecs[vec].capacity THEN Error(m, "EINVAL", 0)
    ELSE Bind(vec_ensure_capacity(m, vec, length, outcome), LAMBDA e :
             IF e.ret = 0 THEN Error(e, "ENOMEM", 0)
             ELSE Bind(IF index # SizeSub(e.vecs[vec].count, 1) THEN MemMove(e, e.vecs[vec].data, index + length, e.vecs[vec].data, index, SizeSub(e.vecs[vec].count, index)) ELSE e, LAMBDA s :
                  Return([WriteMem(s, s.vecs[vec].data, index, SubSeq(src, 1, length)) EXCEPT !.vecs[vec].count = @ + length], length))))

\* x != LONG_MIN; an indeterminate x compares either way (ne)
NotLongMin(x, ne) == IF x = Garbage THEN ne ELSE x # LONG_MIN

mc_vector_remove(m0, vec, index, ne) == Bind(m0, LAMBDA m :
    IF vec = NullVec THEN Error(m, "EFAULT", 0)
    ELSE IF index >= m.vecs[vec].count THEN Error(m, "EINVAL", 0)
    ELSE IF index = m.vecs[vec].count - 1
    THEN Bind(mc_vector_pop(m, vec), LAMBDA r : Return(r, IF NotLongMin(r.ret, ne) THEN 1 ELSE 0))
    ELSE Return([MemMove(m, m.vecs[vec].data, index, m.vecs[vec].data, index + 1, m.vecs[vec].count - index) EXCEPT !.vecs[vec].count = @ - 1], 1))

\* an erase whose range test lets the range end at count
mc_vector_erase_to_end(m0, vec, index, length) == Bind(m0, LAMBDA m :
    IF vec = NullVec THEN Error(m, "EFAULT", 0)
    ELSE IF index >= m.vecs[vec].count \/ length = 0 \/ index + length > m.vecs[vec].count THEN Error(m, "EINVAL", 0)
    ELSE Return([MemMove(m, m.vecs[vec].data, index, m.vecs[vec].data, index + length, m.vecs[vec].count - index - length) EXCEPT !.vecs[vec].count = @ - length], length))

mc_vector_erase(m0, vec, index, length) == Bind(m0, LAMBDA m :
    IF vec = NullVec THEN Error(m, "EFAULT", 0)
    ELSE IF index >= m.vecs[vec].count \/ length = 0 \/ index + length >= m.vecs[vec].count THEN Error(m, "EINVAL", 0)
    ELSE Return([MemMove(m, m.vecs[vec].data, index, m.vecs[vec].data, index + length, m.vecs[vec].count - index - length) EXCEPT !.vecs[vec].count = @ - length], length))

mc_vector_swap(m0, vec1, vec2) == Bind(m0, LAMBDA m :
    IF vec1 = NullVec \/ vec2 = NullVec THEN Error(m, "EFAULT", 0)
    ELSE Bind([m EXCEPT !.vecs[vec1].count = m.vecs[vec2].count, !.vecs[vec1].capacity = m.vecs[vec2].capacity, !.vecs[vec1].data = m.vecs[vec2].data], LAMBDA m1 :
             Return([m1 EXCEPT !.vecs[vec2].count = m.vecs[vec1].count, !.vecs[vec2].capacity = m.vecs[vec1].capacity, !.vecs[vec2].data = m.vecs[vec1].data], 1)))

\* a fill_range whose loop runs one element too far
mc_vector_fill_range_over(m0, vec, index, length, value) == Bind(m0, LAMBDA m :
    IF vec = NullVec THEN Error(m, "EFAULT", 0)
    ELSE IF index >= m.vecs[vec].count \/ length = 0 \/ index + length > m.vecs[vec].count THEN Error(m, "EINVAL", 0)
    ELSE Return(WriteMem(m, m.vecs[vec].data, index, Fill(length + 1, value)), 1))

mc_vector_fill_range(m0, vec, index, length, value) == Bind(m0, LAMBDA m :
    IF vec = NullVec THEN Error(m, "EFAULT", 0)
    ELSE IF index >= m.vecs[vec].count \/ length = 0 \/ index + length > m.vecs[vec].count THEN Error(m, "EINVAL", 0)
    ELSE Return(WriteMem(m, m.vecs[vec].data, index, Fill(length, value)), 1))

mc_vector_fill(m0, vec, value) == Bind(m0, LAMBDA m : mc_vector_fill_range(NullDeref(m, vec), vec, 0, Deref(m, vec).count, value))

\* the branch newSize <= MC_VECTOR_BUFSIZE of mc_vector_resize
ResizeToStack(m, vec, newSize) == Bind(IF m.vecs[vec].data = m.vecs[vec].heap_buf THEN [Free(MemMove(m, StackPtr(vec), 0, m.vecs[vec].heap_buf, 0, newSize), m.vecs[vec].heap_buf) EXCEPT !.vecs[vec].heap_buf = NullPtr] ELSE m, LAMBDA c :
    Return([c EXCEPT !.vecs[vec].data = StackPtr(vec), !.vecs[vec].capacity = MC_VECTOR_BUFSIZE, !.vecs[vec].count = newSize], 1))

\* the branch newSize > MC_VECTOR_BUFSIZE of mc_vector_resize
ResizeToHeap(m, vec, newSize, outcome) == IF m.vecs[vec].data = m.vecs[vec].heap_buf
    THEN Bind(Realloc(m, m.vecs[vec].heap_buf, newSize, outcome), LAMBDA r :
             IF r.ptr = NullPtr THEN Error(r.m, "ENOMEM", 0)
             ELSE Return([r.m EXCEPT !.vecs[vec].heap_buf = r.ptr, !.vecs[vec].data = r.ptr, !.vecs[vec].capacity = newSize], 1))
    ELSE Bind(Malloc(m, newSize, outcome), LAMBDA r :
             IF r.ptr = NullPtr THEN Error(r.m, "EINVAL", 0)
             ELSE Return([MemMove(r.m, r.ptr, 0, StackPtr(vec), 0, m.vecs[vec].count) EXCEPT !.vecs[vec].heap_buf = r.ptr, !.vecs[vec].data = r.ptr, !.vecs[vec].capacity = newSize], 1))

mc_vector_resize(m0, vec, newSize, outcome) == Bind(m0, LAMBDA m :
    IF vec = NullVec THEN Error(m, "EFAULT", 0)
    ELSE IF newSize = 0 THEN Error(m, "EINVAL", 0)
    ELSE IF newSize <= MC_VECTOR_BUFSIZE THEN ResizeToStack(m, vec, newSize)
    ELSE ResizeToHeap(m, vec, newSize, outcome))

mc_vector_shrink(m0, vec, outcome) == Bind(m0, LAMBDA m : mc_vector_resize(NullDeref(m, vec), vec, Deref(m, vec).count, outcome))

mc_vector_clear(m0, vec) == Bind(m0, LAMBDA m :
    IF vec = NullVec THEN Error(m, "EFAULT", 0)
    ELSE Bind(IF m.vecs[vec].data = m.vecs[vec].heap_buf THEN [Free(m, m.vecs[vec].heap_buf) EXCEPT !.vecs[vec].heap_buf = NullPtr, !.vecs[vec].data = StackPtr(vec), !.vecs[vec].capacity = MC_VECTOR_BUFSIZE] ELSE m, LAMBDA c :
             Return([c EXCEPT !.vecs[vec].count = 0], 1)))

-----------------------------------------------------------------------------
(* The specification *)

Init == /\ vecs = [v \in VecIds |-> NoVec("unborn")]
        /\ heap = [b \in Blocks |-> NoBlock("unalloc")]
        /\ errno = "0"
        /\ fault = "none"
        /\ ops = 0

\* one call of the API: the machine state it leaves
Call(r) == \E x \in {r} :
              /\ vecs' = x.vecs
              /\ heap' = x.heap
              /\ errno' = x.errno
              /\ fault' = x.fault
              /\ ops' = ops + 1

\* after undefined behaviour the program is not followed any further
CanCall == fault = "none" /\ ops < MaxOps

\* the struct the next successful constructor gets
NextVec == IF \E v \in VecIds : vecs[v].st = "unborn" THEN CHOOSE v \in VecIds : vecs[v].st = "unborn" /\ \A w \in VecIds : w < v => vecs[w].st # "unborn" ELSE NullVec

\* the vectors a caller may pass: those it created and has not freed, and NULL
Live == {v \in VecIds : vecs[v].st = "live"}

Args == Live \cup {NullVec}

\* the arguments the callers pass
MakeCaps == {0, 5, 12}

FilledCaps == {10, 22}

FilledLens == {0, 9, 22}

ArrayLens == {0, 2, 5}

Sizes == {0, 5, 11, 20}

Lengths == {0, 1, 2}

Indexes(vec) == {i \in {0, 1, Deref(Machine, vec).count - 1, Deref(Machine, vec).count, Deref(Machine, vec).count + 1, Deref(Machine, vec).capacity} : i >= 0}

Arrays == {NullArray, SrcArray}

StructOutcomes == {"fail", "move"}

\* the outcomes of the realloc in a growth of vec by len: one when it does not grow
GrowOutcomes(vec, len) == IF vec # NullVec /\ vecs[vec].count + len >= vecs[vec].capacity THEN AllocOutcomes ELSE {"inplace"}

Make == /\ CanCall /\ NextVec # NullVec
        /\ \E capacity \in MakeCaps, sa \in StructOutcomes, ba \in StructOutcomes : Call(mc_vector_make(Machine, NextVec, capacity, sa, ba))

MakeFilled == /\ CanCall /\ NextVec # NullVec
              /\ \E capacity \in FilledCaps, length \in FilledLens, value \in Values, sa \in StructOutcomes, ba \in StructOutcomes : Call(mc_vector_make_filled(Machine, NextVec, capacity, length, value, sa, ba))

Clone == /\ CanCall /\ NextVec # NullVec
         /\ \E vec \in Args, sa \in StructOutcomes, ba \in StructOutcomes : Call(mc_vector_clone(Machine, vec, NextVec, sa, ba))

FromArray == /\ CanCall /\ NextVec # NullVec
             /\ \E src \in Arrays, length \in ArrayLens, sa \in StructOutcomes, ba \in StructOutcomes : Call(mc_vector_from_array(Machine, src, NextVec, length, sa, ba))

FreeVec == CanCall /\ \E vec \in Args : Call(mc_vector_free(Machine, vec))

ToArray == CanCall /\ \E vec \in Args, bufferOk \in BOOLEAN : Call(mc_vector_to_array(Machine, vec, bufferOk))

Extract == CanCall /\ \E vec \in Args, bufferOk \in BOOLEAN, length \in Lengths : \E index \in Indexes(vec) : Call(mc_vector_extract(Machine, vec, bufferOk, index, length))

Get == CanCall /\ \E vec \in Args, outOk \in BOOLEAN : \E index \in Indexes(vec) : Call(mc_vector_get(Machine, vec, index, outOk))

GetUnchecked == CanCall /\ \E vec \in Args : \E index \in Indexes(vec) : Call(mc_vector_get_unchecked(Machine, vec, index))

Set == CanCall /\ \E vec \in Args, value \in Values : \E index \in Indexes(vec) : Call(mc_vector_set(Machine, vec, index, value))

Size == CanCall /\ \E vec \in Args : Call(mc_vector_size(Machine, vec))

Capacity == CanCall /\ \E vec \in Args : Call(mc_vector_capacity(Machine, vec))

Empty == CanCall /\ \E vec \in Args : Call(mc_vector_empty(Machine, vec))

IsStack == CanCall /\ \E vec \in Args : Call(mc_vector_is_stack(Machine, vec))

Push == CanCall /\ \E vec \in Args, value \in Values : \E outcome \in GrowOutcomes(vec, 1) : Call(mc_vector_push(Machine, vec, value, outcome))

Pop == CanCall /\ \E vec \in Args : Call(mc_vector_pop(Machine, vec))

Insert == CanCall /\ \E vec \in Args, value \in Values, outcome2 \in AllocOutcomes : \E index \in Indexes(vec), outcome \in GrowOutcomes(vec, 1) : Call(mc_vector_insert(Machine, vec, index, value, outcome, outcome2))

Inserts == CanCall /\ \E vec \in Args, src \in Arrays, length \in Lengths : \E index \in Indexes(vec), outcome \in GrowOutcomes(vec, length) : Call(mc_vector_inserts(Machine, vec, index, src, length, outcome))

Remove == CanCall /\ \E vec \in Args, ne \in BOOLEAN : \E index \in Indexes(vec) : Call(mc_vector_remove(Machine, vec, index, ne))

Erase == CanCall /\ \E vec \in Args, length \in Lengths : \E index \in Indexes(vec) : Call(mc_vector_erase(Machine, vec, index, length))

Swap == CanCall /\ \E vec1 \in Args, vec2 \in Args : Call(mc_vector_swap(Machine, vec1, vec2))

FillAll == CanCall /\ \E vec \in Args, value \in Values : Call(mc_vector_fill(Machine, vec, value))

FillRange == CanCall /\ \E vec \in Args, length \in Lengths, value \in Values : \E index \in Indexes(vec) : Call(mc_vector_fill_range(Machine, vec, index, length, value))

Shrink == CanCall /\ \E vec \in Args, outcome \in AllocOutcomes : Call(mc_vector_shrink(Machine, vec, outcome))

Resize == CanCall /\ \E vec \in Args, newSize \in Sizes, outcome \in AllocOutcomes : Call(mc_vector_resize(Machine, vec, newSize, outcome))

Clear == CanCall /\ \E vec \in Args : Call(mc_vector_clear(Machine, vec))

Next == \/ Make \/ MakeFilled \/ Clone \/ FromArray \/ FreeVec
        \/ ToArray \/ Extract \/ Get \/ GetUnchecked \/ Set
        \/ Size \/ Capacity \/ Empty \/ IsStack
        \/ Push \/ Pop \/ Insert \/ Inserts \/ Remove \/ Erase
        \/ Swap \/ FillAll \/ FillRange \/ Shrink \/ Resize \/ Clear

Spec == Init /\ [][Next]_vars

\* the same program in runs one call shorter: the first call is already spent
InitShort == /\ vecs = [v \in VecIds |-> NoVec("unborn")]
             /\ heap = [b \in Blocks |-> NoBlock("unalloc")]
             /\ errno = "0"
             /\ fault = "none"
             /\ ops = 1

SpecShort == InitShort /\ [][Next]_vars

-----------------------------------------------------------------------------
(* What a caller can observe of a vector *)

\* the live elements [0, count) as read through the active buffer
LiveSeq(m, vec) == ReadSeq(m, m.vecs[vec].data, 0, m.vecs[vec].count)

\* count, capacity, the buffers and the live elements of vec
Observed(m, vec) == [count |-> m.vecs[vec].count, capacity |-> m.vecs[vec].capacity, data |-> m.vecs[vec].data, heap_buf |-> m.vecs[vec].heap_buf, live |-> LiveSeq(m, vec)]

\* the machine at the entry of a call whose caller cleared errno
Entry == [Machine EXCEPT !.errno = "0"]

\* vec uses its own inline buffer, as mc_vector_make leaves it for a small capacity
Inline(vec) == vecs[vec].data = StackPtr(vec) /\ vecs[vec].heap_buf = NullPtr /\ vecs[vec].capacity = MC_VECTOR_BUFSIZE

\* the call reported ENOMEM
Oom(r) == r.ret = 0 /\ r.errno = "ENOMEM"

-----------------------------------------------------------------------------
(* The claims *)

\* C1: in every reachable state every live vector has 0 <= count <= capacity.
C1_CountBound == \A vec \in Live : 0 <= vecs[vec].count /\ vecs[vec].count <= vecs[vec].capacity

\* C2: in every reachable state every live vector has capacity >= MC_VECTOR_BUFSIZE.
C2_CapacityFloor == \A vec \in Live : vecs[vec].capacity >= MC_VECTOR_BUFSIZE

\* C3: a live vector that holds an allocated buffer (heap_buf) uses it as its
\* active buffer (data).
C3_AllocatedIsActive == \A vec \in Live : vecs[vec].heap_buf # NullPtr => vecs[vec].data = vecs[vec].heap_buf

\* C4: a live vector whose capacity is MC_VECTOR_BUFSIZE uses its inline buffer
\* and holds no allocated buffer.
C4_FloorCapacityIsInline == \A vec \in Live : vecs[vec].capacity = MC_VECTOR_BUFSIZE => vecs[vec].data = StackPtr(vec) /\ vecs[vec].heap_buf = NullPtr

\* C5: the active buffer of every live vector is an unreleased buffer at least
\* capacity elements long.
C5_ActiveBufferHoldsCapacity == \A vec \in Live : BufValid(Machine, vecs[vec].data) /\ BufLen(Machine, vecs[vec].data) >= vecs[vec].capacity

\* C6: a successful push on a vector that uses its inline buffer keeps it there
\* (is_stack, capacity MC_VECTOR_BUFSIZE) while count stays <= MC_VECTOR_BUFSIZE;
\* the push that makes count 11 moves it to an allocated buffer of capacity >= 21.
C6_InlineUntilEleventhPush == \A vec \in Live : Inline(vec) /\ vecs[vec].count <= MC_VECTOR_BUFSIZE =>
    \A value \in Values, outcome \in AllocOutcomes : LET r == mc_vector_push(Machine, vec, value, outcome) IN
        r.ret = 1 => IF r.vecs[vec].count <= MC_VECTOR_BUFSIZE
                     THEN mc_vector_is_stack(r, vec).ret = 1 /\ r.vecs[vec].capacity = MC_VECTOR_BUFSIZE
                     ELSE mc_vector_is_stack(r, vec).ret = 0 /\ r.vecs[vec].capacity >= 21 /\ r.vecs[vec].count = 11

\* C7: a push, insert or inserts whose growth fails to allocate reports ENOMEM,
\* and a call that reports ENOMEM leaves count, capacity, both buffers and the
\* live elements of the vector as they were.
C7_FailedGrowthChangesNothing == \A vec \in Live, value \in Values, outcome \in AllocOutcomes, outcome2 \in AllocOutcomes :
    /\ LET r == mc_vector_push(Entry, vec, value, outcome) IN
          /\ (outcome = "fail" /\ vecs[vec].count + 1 >= vecs[vec].capacity) => Oom(r)
          /\ Oom(r) => Observed(r, vec) = Observed(Machine, vec)
    /\ \A index \in Indexes(vec) : LET r == mc_vector_insert(Entry, vec, index, value, outcome, outcome2) IN
          /\ (index < vecs[vec].count /\ outcome = "fail" /\ vecs[vec].count + 1 >= vecs[vec].capacity) => Oom(r)
          /\ Oom(r) => Observed(r, vec) = Observed(Machine, vec)
    /\ \A index \in Indexes(vec), length \in Lengths : LET r == mc_vector_inserts(Entry, vec, index, SrcArray, length, outcome) IN
          /\ (length > 0 /\ index + length < vecs[vec].capacity /\ outcome = "fail" /\ vecs[vec].count + length >= vecs[vec].capacity) => Oom(r)
          /\ Oom(r) => Observed(r, vec) = Observed(Machine, vec)

\* the observable state of every live vector is as it was before the call
Unchanged(r) == \A vec \in Live : r.vecs[vec].st = "live" /\ Observed(r, vec) = Observed(Machine, vec)

\* C8: a mutator that reports failure (returns 0; for pop, sets errno) has
\* changed no vector's count, capacity, buffers or live elements.
C8_FailureChangesNothing == \A vec \in Args, value \in Values, outcome \in AllocOutcomes :
    /\ \A index \in Indexes(vec) :
          /\ LET r == mc_vector_set(Entry, vec, index, value) IN r.ret = 0 => Unchanged(r)
          /\ LET r == mc_vector_insert(Entry, vec, index, value, outcome, outcome) IN r.ret = 0 => Unchanged(r)
          /\ \A ne \in BOOLEAN : LET r == mc_vector_remove(Entry, vec, index, ne) IN r.ret = 0 => Unchanged(r)
          /\ \A length \in Lengths :
                /\ LET r == mc_vector_inserts(Entry, vec, index, SrcArray, length, outcome) IN r.ret = 0 => Unchanged(r)
                /\ LET r == mc_vector_erase(Entry, vec, index, length) IN r.ret = 0 => Unchanged(r)
                /\ LET r == mc_vector_fill_range(Entry, vec, index, length, value) IN r.ret = 0 => Unchanged(r)
    /\ LET r == mc_vector_push(Entry, vec, value, outcome) IN r.ret = 0 => Unchanged(r)
    /\ LET r == mc_vector_pop(Entry, vec) IN r.errno # "0" => Unchanged(r)
    /\ \A newSize \in Sizes : LET r == mc_vector_resize(Entry, vec, newSize, outcome) IN r.ret = 0 => Unchanged(r)
    /\ LET r == mc_vector_shrink(Entry, vec, outcome) IN r.ret = 0 => Unchanged(r)
    /\ LET r == mc_vector_clear(Entry, vec) IN r.ret = 0 => Unchanged(r)
    /\ \A vec2 \in Args : LET r == mc_vector_swap(Entry, vec, vec2) IN r.ret = 0 => Unchanged(r)

\* C9: a successful insert(index, value) with index < count followed by
\* remove(index) leaves the live elements and count as they were.
C9_InsertThenRemove == \A vec \in Live, value \in Values, outcome \in AllocOutcomes, ne \in BOOLEAN : \A index \in Indexes(vec) :
    LET a == mc_vector_insert(Machine, vec, index, value, outcome, outcome)
        b == mc_vector_remove(a, vec, index, ne)
    IN  (index < vecs[vec].count /\ a.ret = 1) => LiveSeq(b, vec) = LiveSeq(Machine, vec) /\ b.vecs[vec].count = vecs[vec].count

\* C10: a successful push(value) followed by pop returns value and leaves count
\* and the live elements as they were before the push.
C10_PushThenPop == \A vec \in Live, value \in Values, outcome \in AllocOutcomes :
    LET a == mc_vector_push(Machine, vec, value, outcome)
        b == mc_vector_pop(a, vec)
    IN  a.ret = 1 => b.ret = value /\ b.vecs[vec].count = vecs[vec].count /\ LiveSeq(b, vec) = LiveSeq(Machine, vec)

\* what the accessors size, capacity, extract and is_stack answer about vec
Visible(m, vec) == [count |-> mc_vector_size(m, vec).ret, capacity |-> mc_vector_capacity(m, vec).ret, live |-> LiveSeq(m, vec), is_stack |-> mc_vector_is_stack(m, vec).ret]

\* C11: swap of two distinct live vectors succeeds and exchanges what can be
\* observed of them: count, capacity, live elements and the is_stack answer.
C11_SwapExchangesObservable == \A a \in Live, b \in Live : a # b =>
    Bind(mc_vector_swap(Machine, a, b), LAMBDA r : r.ret = 1 /\ Visible(r, a) = Visible(Machine, b) /\ Visible(r, b) = Visible(Machine, a))

\* C12: no buffer is the active buffer of two live vectors or the inline buffer
\* of another live vector, an active allocated buffer is the one its vector
\* releases, and freeing or clearing a vector leaves the live elements of every
\* other vector readable and as they were.
C12_ExclusiveOwnership == \A a \in Live, b \in Live : a # b =>
    /\ vecs[a].data # vecs[b].data
    /\ vecs[a].data # StackPtr(b)
    /\ vecs[a].data[1] = "heap" => vecs[a].data = vecs[a].heap_buf
    /\ Bind(mc_vector_free(Machine, a), LAMBDA r : BufValid(r, r.vecs[b].data) /\ LiveSeq(r, b) = LiveSeq(Machine, b))
    /\ Bind(mc_vector_clear(Machine, a), LAMBDA r : BufValid(r, r.vecs[b].data) /\ LiveSeq(r, b) = LiveSeq(Machine, b))

\* the live elements of vec lie in a buffer that is allocated and long enough
Sound(m, vec) == BufValid(m, m.vecs[vec].data) /\ BufLen(m, m.vecs[vec].data) >= m.vecs[vec].count

\* count, capacity and the live elements of vec
Content(m, vec) == [count |-> m.vecs[vec].count, capacity |-> m.vecs[vec].capacity, live |-> LiveSeq(m, vec)]

\* the outcomes of every call of a mutator on vec in m, with indexes from idx
Mutations(m, vec, idx) ==
    {mc_vector_set(m, vec, i, v) : i \in idx, v \in Values}
    \cup {mc_vector_push(m, vec, v, o) : v \in Values, o \in AllocOutcomes}
    \cup {mc_vector_pop(m, vec)}
    \cup {mc_vector_insert(m, vec, i, 1, o[1], o[2]) : i \in idx, o \in AllocOutcomes \X AllocOutcomes}
    \cup {mc_vector_inserts(m, vec, i, SrcArray, n, o) : i \in idx, n \in Lengths, o \in AllocOutcomes}
    \cup {mc_vector_remove(m, vec, i, TRUE) : i \in idx}
    \cup {mc_vector_erase(m, vec, i, n) : i \in idx, n \in Lengths}
    \cup {mc_vector_fill_range(m, vec, i, n, v) : i \in idx, n \in Lengths, v \in Values}
    \cup {mc_vector_fill(m, vec, v) : v \in Values}
    \cup {mc_vector_resize(m, vec, n, o) : n \in Sizes, o \in AllocOutcomes}
    \cup {mc_vector_shrink(m, vec, o) : o \in AllocOutcomes}
    \cup {mc_vector_clear(m, vec), mc_vector_free(m, vec)}

\* every mutation of vec that returns leaves other live and with its content
Independent(m, vec, other, idx) == \A q \in Mutations(m, vec, idx) : q.fault = "none" => q.vecs[other].st = "live" /\ Content(q, other) = Content(m, other)

C14_ClearResets == \A vec \in Live : fault = "none" =>
    Bind(mc_vector_clear(Machine, vec), LAMBDA r :
        /\ r.ret = 1 /\ r.fault = "none"
        /\ r.vecs[vec].heap_buf = NullPtr /\ r.vecs[vec].data = StackPtr(vec)
        /\ r.vecs[vec].capacity = MC_VECTOR_BUFSIZE /\ r.vecs[vec].count = 0)

Min(a, b) == IF a <= b THEN a ELSE b

\* the first n elements of vec as read through its active buffer
Prefix(m, vec, n) == ReadSeq(m, m.vecs[vec].data, 0, n)

\* C15: a successful resize(n) followed by a successful resize to the original
\* capacity leaves the first min(n, count) elements as they were.
C15_ResizeRoundTrip == \A vec \in Live, n \in Sizes, o1 \in AllocOutcomes, o2 \in AllocOutcomes : (fault = "none" /\ Sound(Machine, vec)) =>
    Bind(mc_vector_resize(Machine, vec, n, o1), LAMBDA a :
    Bind(mc_vector_resize(a, vec, vecs[vec].capacity, o2), LAMBDA b :
        (a.ret = 1 /\ b.ret = 1) => b.fault = "none" /\ Prefix(b, vec, Min(n, vecs[vec].count)) = Prefix(Machine, vec, Min(n, vecs[vec].count))))

\* the allocations of the next call succeed
Succeeding(m) == {o \in AllocOutcomes : o # "fail" /\ FreshBlock(m) # 0}

\* C16: shrink of any live vector, an empty one included, succeeds when its
\* allocation does, and is resize(count): count and the live elements stay,
\* capacity becomes count if that exceeds MC_VECTOR_BUFSIZE, else MC_VECTOR_BUFSIZE.
C16_ShrinkFits == \A vec \in Live : \A outcome \in Succeeding(Machine) : (fault = "none" /\ Sound(Machine, vec)) =>
    Bind(mc_vector_shrink(Machine, vec, outcome), LAMBDA r :
        /\ r = mc_vector_resize(Machine, vec, vecs[vec].count, outcome)
        /\ r.ret = 1 /\ r.fault = "none"
        /\ r.vecs[vec].count = vecs[vec].count /\ LiveSeq(r, vec) = LiveSeq(Machine, vec)
        /\ r.vecs[vec].capacity = IF vecs[vec].count > MC_VECTOR_BUFSIZE THEN vecs[vec].count ELSE MC_VECTOR_BUFSIZE)

\* C17: a resize above MC_VECTOR_BUFSIZE whose allocation fails returns 0 with
\* errno ENOMEM, from the inline buffer and from an allocated one, and leaves
\* count, capacity, the buffers and the live elements as they were.
C17_ResizeOutOfMemory == \A vec \in Live, newSize \in Sizes : (fault = "none" /\ newSize > MC_VECTOR_BUFSIZE) =>
    Bind(mc_vector_resize(Entry, vec, newSize, "fail"), LAMBDA r : Oom(r) /\ r.fault = "none" /\ Observed(r, vec) = Observed(Machine, vec))

\* the outcomes of every call that takes a vector, given NULL for it
NullCalls(m) ==
    {mc_vector_fill(m, NullVec, 1), mc_vector_shrink(m, NullVec, "move"), mc_vector_to_array(m, NullVec, TRUE)}
    \cup {mc_vector_get(m, NullVec, 0, TRUE), mc_vector_set(m, NullVec, 0, 1), mc_vector_push(m, NullVec, 1, "move"), mc_vector_pop(m, NullVec)}
    \cup {mc_vector_insert(m, NullVec, 0, 1, "move", "move"), mc_vector_inserts(m, NullVec, 0, SrcArray, 1, "move"), mc_vector_remove(m, NullVec, 0, TRUE)}
    \cup {mc_vector_erase(m, NullVec, 0, 1), mc_vector_fill_range(m, NullVec, 0, 1, 1), mc_vector_resize(m, NullVec, 5, "move"), mc_vector_clear(m, NullVec)}
    \cup {mc_vector_swap(m, NullVec, v) : v \in Args} \cup {mc_vector_swap(m, v, NullVec) : v \in Args}
    \cup {mc_vector_clone(m, NullVec, NextVec, "move", "move"), mc_vector_extract(m, NullVec, TRUE, 0, 1), mc_vector_size(m, NullVec), mc_vector_capacity(m, NullVec)}

\* C18: every call that takes a vector and is given NULL sets errno EFAULT
\* without reading through the pointer and changes nothing; free(NULL) does
\* nothing at all.
C18_NullIsReported == fault = "none" =>
    /\ \A r \in NullCalls(Entry) : r.fault = "none" /\ r.errno = "EFAULT" /\ r.vecs = vecs /\ r.heap = heap
    /\ Bind(mc_vector_free(Entry, NullVec), LAMBDA r : r.fault = "none" /\ r.errno = "0" /\ r.vecs = vecs /\ r.heap = heap)

\* s without its elements at positions [index, index + length), counted from 0
Removed(s, index, length) == SubSeq(s, 1, index) \o SubSeq(s, index + length + 1, Len(s))

\* C19: on a vector whose live elements are readable, erase(index, length)
\* succeeds exactly when length > 0 and index + length < count; it then returns
\* length, removes the elements [index, index + length) and keeps the others in
\* order, lowers count by length and leaves capacity and the buffers alone;
\* otherwise it returns 0 with EINVAL and changes nothing.
C19_EraseRemovesRange == \A vec \in Live, length \in Lengths : \A index \in Indexes(vec) : (fault = "none" /\ Sound(Machine, vec)) =>
    Bind(mc_vector_erase(Entry, vec, index, length), LAMBDA r :
        /\ r.fault = "none"
        /\ r.ret # 0 <=> (length > 0 /\ index + length < vecs[vec].count)
        /\ r.ret # 0 => /\ r.ret = length /\ r.errno = "0"
                        /\ LiveSeq(r, vec) = Removed(LiveSeq(Machine, vec), index, length)
                        /\ r.vecs[vec].count = vecs[vec].count - length
                        /\ r.vecs[vec].capacity = vecs[vec].capacity /\ r.vecs[vec].data = vecs[vec].data /\ r.vecs[vec].heap_buf = vecs[vec].heap_buf
        /\ r.ret = 0 => r.errno = "EINVAL" /\ Observed(r, vec) = Observed(Machine, vec))

\* erase(1, 2) on [10, 20, 30, 40, 50] gives [10, 40, 50] with count 3
C19_Witness == \E vec \in Live : /\ fault = "none" /\ LiveSeq(Machine, vec) = <<10, 20, 30, 40, 50>>
    /\ Bind(mc_vector_erase(Machine, vec, 1, 2), LAMBDA r : r.ret = 2 /\ LiveSeq(r, vec) = <<10, 40, 50>> /\ r.vecs[vec].count = 3)

\* s with the elements t put in front of position index, counted from 0
Inserted(s, index, t) == SubSeq(s, 1, Min(index, Len(s))) \o t \o SubSeq(s, Min(index, Len(s)) + 1, Len(s))

\* C20: an accepted inserts(index, src, length) (length > 0, index + length <
\* capacity) whose growth succeeds returns length, puts the length source
\* elements in front of position index with every old element kept in order,
\* and raises count by length; index = count - 1 and index >= count included.
C20_InsertsKeepsElements == \A vec \in Live, length \in Lengths : \A index \in Indexes(vec), outcome \in GrowOutcomes(vec, length) :
    (fault = "none" /\ Sound(Machine, vec) /\ length > 0 /\ index + length < vecs[vec].capacity) =>
    Bind(mc_vector_inserts(Entry, vec, index, SrcArray, length, outcome), LAMBDA r :
        ~Oom(r) => /\ r.fault = "none" /\ r.ret = length
                   /\ r.vecs[vec].count = vecs[vec].count + length
                   /\ LiveSeq(r, vec) = Inserted(LiveSeq(Machine, vec), index, SubSeq(SrcArray, 1, length)))

Filled(s, index, length, value) == [i \in 1..Len(s) |-> IF i > index /\ i <= index + length THEN value ELSE s[i]]

\* C22: on a vector whose live elements are readable, fill_range(index, length,
\* value) is accepted exactly when length > 0 and index + length <= count; it
\* then sets the elements [index, index + length) to value and leaves the other
\* elements, count, capacity and the buffers alone, and a second application
\* changes nothing more.
C22_FillRangeIdempotent == \A vec \in Live, value \in Values : \A index \in Indexes(vec), length \in Lengths \cup {vecs[vec].count} : (fault = "none" /\ Sound(Machine, vec)) =>
    Bind(mc_vector_fill_range(Entry, vec, index, length, value), LAMBDA a :
        /\ a.fault = "none"
        /\ a.ret = 1 <=> (length > 0 /\ index + length <= vecs[vec].count)
        /\ a.ret = 1 => /\ Observed(a, vec) = [Observed(Machine, vec) EXCEPT !.live = Filled(@, index, length, value)]
                        /\ mc_vector_fill_range(a, vec, index, length, value) = a)

\* a fill of two elements inside [10, 20, 30, 40, 50], applied twice
C22_Witness == \E vec \in Live : /\ fault = "none" /\ LiveSeq(Machine, vec) = <<10, 20, 30, 40, 50>>
    /\ Bind(mc_vector_fill_range(Machine, vec, 1, 2, 1), LAMBDA a :
           a.ret = 1 /\ LiveSeq(a, vec) = <<10, 1, 1, 40, 50>> /\ LiveSeq(mc_vector_fill_range(a, vec, 1, 2, 1), vec) = <<10, 1, 1, 40, 50>>)

\* C23: a successful resize(newSize) with newSize > MC_VECTOR_BUFSIZE leaves
\* the allocated buffer active with capacity = newSize, count as it was and
\* the first min(count, newSize) elements as they were.
C23_ResizeAboveFloor == \A vec \in Live, newSize \in Sizes, outcome \in AllocOutcomes : (fault = "none" /\ Sound(Machine, vec) /\ newSize > MC_VECTOR_BUFSIZE) =>
    Bind(mc_vector_resize(Entry, vec, newSize, outcome), LAMBDA r :
        r.ret = 1 => /\ r.fault = "none"
                     /\ r.vecs[vec].heap_buf # NullPtr /\ r.vecs[vec].data = r.vecs[vec].heap_buf /\ mc_vector_is_stack(r, vec).ret = 0
                     /\ r.vecs[vec].capacity = newSize /\ r.vecs[vec].count = vecs[vec].count
                     /\ Prefix(r, vec, Min(vecs[vec].count, newSize)) = Prefix(Machine, vec, Min(vecs[vec].count, newSize)))

\* C24: a successful insert(index, value) with index < count, index = count - 1
\* included, puts value at position index, keeps the elements before it, moves
\* the elements from index on one position up in order, and raises count by 1.
C24_InsertAtIndex == \A vec \in Live, value \in Values, outcome \in AllocOutcomes, outcome2 \in AllocOutcomes : \A index \in Indexes(vec) :
    (fault = "none" /\ Sound(Machine, vec) /\ index < vecs[vec].count) =>
    Bind(mc_vector_insert(Entry, vec, index, value, outcome, outcome2), LAMBDA r :
        r.ret = 1 => /\ r.fault = "none"
                     /\ r.vecs[vec].count = vecs[vec].count + 1
                     /\ LiveSeq(r, vec) = Inserted(LiveSeq(Machine, vec), index, <<value>>))

\* C25: when vec_ensure_capacity(len) grows a vector (count + len >= capacity)
\* and its allocation succeeds, capacity becomes 2 * capacity + len, the
\* allocated buffer is active, count is as it was and every live element is at
\* its index in the new buffer; for every reachable vector, swapped ones included.
C25_GrowthKeepsElements == \A vec \in Live, len \in 1..2, outcome \in AllocOutcomes : (fault = "none" /\ Sound(Machine, vec) /\ vecs[vec].count + len >= vecs[vec].capacity) =>
    Bind(vec_ensure_capacity(Machine, vec, len, outcome), LAMBDA r :
        r.ret = 1 => /\ r.fault = "none"
                     /\ r.vecs[vec].capacity = 2 * vecs[vec].capacity + len
                     /\ r.vecs[vec].heap_buf # NullPtr /\ r.vecs[vec].data = r.vecs[vec].heap_buf
                     /\ r.vecs[vec].count = vecs[vec].count
                     /\ LiveSeq(r, vec) = LiveSeq(Machine, vec))

\* the outcomes of every call on vec in m of an operation that reads or writes
\* elements, with indexes from idx
Accesses(m, vec, idx) ==
    {mc_vector_get(m, vec, i, TRUE) : i \in idx}
    \cup {mc_vector_set(m, vec, i, 1) : i \in idx}
    \cup {mc_vector_push(m, vec, 1, o) : o \in AllocOutcomes}
    \cup {mc_vector_pop(m, vec)}
    \cup {mc_vector_insert(m, vec, i, 1, o[1], o[2]) : i \in idx, o \in AllocOutcomes \X AllocOutcomes}
    \cup {mc_vector_inserts(m, vec, i, SrcArray, n, o) : i \in idx, n \in Lengths, o \in AllocOutcomes}
    \cup {mc_vector_remove(m, vec, i, TRUE) : i \in idx}
    \cup {mc_vector_erase(m, vec, i, n) : i \in idx, n \in Lengths}
    \cup {mc_vector_fill_range(m, vec, i, n, 1) : i \in idx, n \in Lengths}
    \cup {mc_vector_extract(m, vec, TRUE, i, n) : i \in idx, n \in Lengths}
    \cup {mc_vector_clone(m, vec, NextVec, "move", o) : o \in StructOutcomes}
    \cup {mc_vector_resize(m, vec, n, o) : n \in Sizes, o \in AllocOutcomes}

\* an access outside a buffer, or a block move of a wrapped length
MemoryFaults == {"read", "write", "size"}

\* C26: in every reachable state, no call of get, set, push, pop, insert,
\* inserts, remove, erase, fill_range, extract, clone or resize on a live
\* vector reads or writes outside the active buffer or moves a block of a
\* wrapped (negative) length.
C26_AccessesStayInside == \A vec \in Live : fault = "none" => \A r \in Accesses(Machine, vec, Indexes(vec)) : r.fault \notin MemoryFaults

\* mc_vector_free(vec) when vec is a live vector of m
FreeLive(m, vec) == IF m.vecs[vec].st = "live" THEN mc_vector_free(m, vec) ELSE m

\* the machine after the program destroyed every vector it still holds
DestroyAll(m) == FreeLive(FreeLive(m, 1), 2)

\* C27: in every reachable state, destroying every vector releases every
\* allocated buffer exactly once: no release of a block that is not allocated
\* (twice), and no block left allocated (zero times).
C27_BuffersReleasedOnce == fault = "none" => Bind(DestroyAll(Machine), LAMBDA r : r.fault = "none" /\ \A b \in Blocks : r.heap[b].st # "live")

\* the outcomes of every call on vec in m of an operation that can grow the
\* vector, with indexes from idx
Growths(m, vec, idx) ==
    {mc_vector_push(m, vec, v, o) : v \in Values, o \in AllocOutcomes}
    \cup {mc_vector_insert(m, vec, i, 1, o[1], o[2]) : i \in idx, o \in AllocOutcomes \X AllocOutcomes}
    \cup {mc_vector_inserts(m, vec, i, SrcArray, n, o) : i \in idx, n \in Lengths, o \in AllocOutcomes}

ElementCalls(m, vec, idx) ==
    {mc_vector_get(m, vec, i, ok) : i \in idx, ok \in BOOLEAN}
    \cup {mc_vector_get_unchecked(m, vec, i) : i \in idx}
    \cup {mc_vector_set(m, vec, i, v) : i \in idx, v \in Values}
    \cup {mc_vector_pop(m, vec)}
    \cup {mc_vector_remove(m, vec, i, ne) : i \in idx, ne \in BOOLEAN}
    \cup {mc_vector_erase(m, vec, i, n) : i \in idx, n \in Lengths}
    \cup {mc_vector_fill(m, vec, v) : v \in Values}
    \cup {mc_vector_fill_range(m, vec, i, n, v) : i \in idx, n \in Lengths, v \in Values}
    \cup {mc_vector_extract(m, vec, ok, i, n) : i \in idx, n \in Lengths, ok \in BOOLEAN}
    \cup {mc_vector_to_array(m, vec, ok) : ok \in BOOLEAN}

\* r has the capacities, the active buffers and the allocated blocks of m
SameBuffers(m, r) == /\ \A w \in VecIds : /\ r.vecs[w].st = m.vecs[w].st
                                          /\ r.vecs[w].capacity = m.vecs[w].capacity
                                          /\ r.vecs[w].data = m.vecs[w].data
                                          /\ r.vecs[w].heap_buf = m.vecs[w].heap_buf
                     /\ \A b \in Blocks : r.heap[b].st = m.heap[b].st /\ Len(r.heap[b].mem) = Len(m.heap[b].mem)

\* C29: in every reachable state, a get, get_unchecked, set, pop, remove,
\* erase, fill, fill_range, extract or to_array on a live vector, successful or
\* not, leaves the capacity and the active buffer of every vector as they were
\* and allocates or releases no buffer.
C29_ElementCallsKeepBuffers == \A vec \in Live : fault = "none" =>
    \A r \in ElementCalls(Machine, vec, Indexes(vec)) : r.fault = "none" => SameBuffers(Machine, r)

\* the pop of the only element of a vector held in an allocated buffer keeps
\* the buffer and the capacity
C29_Witness == \E vec \in Live : /\ fault = "none" /\ vecs[vec].count = 1
                                 /\ vecs[vec].heap_buf # NullPtr /\ vecs[vec].data = vecs[vec].heap_buf
                                 /\ Bind(mc_vector_pop(Machine, vec), LAMBDA r :
                                        /\ r.fault = "none" /\ r.vecs[vec].count = 0
                                        /\ SameBuffers(Machine, r))

====
